---- MODULE Spec2Model ----
(***************************************************************************)
(* perfometer: lock-free statistics counters (src/src/lib.rs) and the      *)
(* registry that names them (src/src/registry.rs).                         *)
(*                                                                         *)
(* Every atomic operation of the source (load, store, fetch_add,           *)
(* compare_and_swap) is one step of the thread that executes it; the       *)
(* thread's position is pc[t] and the values it holds in local variables   *)
(* are loc[t].  AtomicU64 values are kept modulo 2^Width.  Atomic<f64>     *)
(* values are binary64 numbers, sign, exponent and 53-bit mantissa, and    *)
(* every f64 operation rounds as the hardware does.                        *)
(***************************************************************************)
EXTENDS Integers, Sequences, FiniteSets, TLC

\* ------------------------------------------------------------- bounds
Width == 3          \* bits of an AtomicU64 in the model (64 in the source)
NumThreads == 2     \* threads sharing the counters
MaxCalls == 2       \* EventCounter.increment calls per thread
MaxBegins == 2      \* ElapsedCounter.begin calls followed
MaxTime == 3        \* largest tv_sec the clock reaches
MaxOps == 1         \* calls on boxed counters of the builder and the registry followed
MaxClones == 2      \* Arc::clone calls on the registry's Arc whose clones are alive together
MaxSamples == 2     \* observations counted once a set_elapsed(v > 0) of Spec has added its own
MaxOverlap == 0     \* observations in flight, or loops of set_elapsed running, when Spec makes a call that adds one

Modulus == 2 ^ Width
U64Max == Modulus - 1
U64 == 0 .. U64Max
Threads == 1 .. NumThreads

\* ------------------------------------------------- integer arithmetic
\* AtomicU64::fetch_add wraps around on overflow.
FetchAdd(v, d) == (v + d) % Modulus

\* u64 - u64 in release builds (wrapping); a debug build panics when a < b.
WrappingSub(a, b) == (a - b + Modulus) % Modulus

\* ------------------------------------------------ natural numbers
\* Numbers too wide for one integer are sequences of limbs, least
\* significant first, without leading zero limbs; <<>> is 0.
LimbBits == 15
Base == 2 ^ LimbBits

RECURSIVE NatOf(_)
NatOf(n) == IF n = 0 THEN <<>> ELSE <<n % Base>> \o NatOf(n \div Base)

RECURSIVE NatTrim(_)
NatTrim(a) ==
    IF a = <<>> THEN <<>>
    ELSE IF a[Len(a)] = 0 THEN NatTrim(SubSeq(a, 1, Len(a) - 1)) ELSE a

RECURSIVE NatAddC(_, _, _)
NatAddC(a, b, c) ==
    IF a = <<>> /\ b = <<>> THEN (IF c = 0 THEN <<>> ELSE <<c>>)
    ELSE LET x == (IF a = <<>> THEN 0 ELSE a[1]) + (IF b = <<>> THEN 0 ELSE b[1]) + c
         IN  <<x % Base>> \o NatAddC(IF a = <<>> THEN a ELSE Tail(a),
                                     IF b = <<>> THEN b ELSE Tail(b), x \div Base)
NatAdd(a, b) == NatAddC(a, b, 0)

\* a - b for a >= b
RECURSIVE NatSubB(_, _, _)
NatSubB(a, b, c) ==
    IF a = <<>> THEN <<>>
    ELSE LET x == a[1] - (IF b = <<>> THEN 0 ELSE b[1]) - c
         IN  <<x % Base>> \o NatSubB(Tail(a), IF b = <<>> THEN b ELSE Tail(b),
                                     IF x < 0 THEN 1 ELSE 0)
NatSub(a, b) == NatTrim(NatSubB(a, b, 0))

\* -1, 0, 1 as a is below, equal to, above b
RECURSIVE NatCmpFrom(_, _, _)
NatCmpFrom(a, b, i) ==
    IF i = 0 THEN 0
    ELSE IF a[i] < b[i] THEN -1
    ELSE IF a[i] > b[i] THEN 1
    ELSE NatCmpFrom(a, b, i - 1)
NatCmp(a, b) ==
    IF Len(a) < Len(b) THEN -1
    ELSE IF Len(a) > Len(b) THEN 1
    ELSE NatCmpFrom(a, b, Len(a))

\* a * k for 0 <= k < Base
RECURSIVE NatMulC(_, _, _)
NatMulC(a, k, c) ==
    IF a = <<>> THEN (IF c = 0 THEN <<>> ELSE <<c>>)
    ELSE LET x == a[1] * k + c
         IN  <<x % Base>> \o NatMulC(Tail(a), k, x \div Base)
NatMulSmall(a, k) == IF k = 0 THEN <<>> ELSE NatMulC(a, k, 0)

NatShiftLimb(a) == IF a = <<>> THEN <<>> ELSE <<0>> \o a

RECURSIVE NatMul(_, _)
NatMul(a, b) ==
    IF b = <<>> THEN <<>>
    ELSE NatAdd(NatMulSmall(a, b[1]), NatShiftLimb(NatMul(a, Tail(b))))

\* <<a \div d, a % d>> for 0 < d < Base
RECURSIVE NatDivR(_, _, _)
NatDivR(a, d, i) ==
    IF i > Len(a) THEN <<<<>>, 0>>
    ELSE LET up == NatDivR(a, d, i + 1)
             x == up[2] * Base + a[i]
         IN  <<<<x \div d>> \o up[1], x % d>>
NatDivSmall(a, d) ==
    LET r == NatDivR(a, d, 1) IN <<NatTrim(r[1]), r[2]>>

RECURSIVE BitLen(_)
BitLen(n) == IF n = 0 THEN 0 ELSE 1 + BitLen(n \div 2)
NatBitLen(a) == IF a = <<>> THEN 0 ELSE LimbBits * (Len(a) - 1) + BitLen(a[Len(a)])

RECURSIVE NatShiftLimbs(_, _)
NatShiftLimbs(a, n) == IF n = 0 THEN a ELSE NatShiftLimbs(NatShiftLimb(a), n - 1)
\* a * 2^k
NatShl(a, k) == NatShiftLimbs(NatMulSmall(a, 2 ^ (k % LimbBits)), k \div LimbBits)

\* <<a \div 2^k, whether a % 2^k # 0>>
NatShr(a, k) ==
    LET n == k \div LimbBits
        low == SubSeq(a, 1, IF n < Len(a) THEN n ELSE Len(a))
        high == SubSeq(a, n + 1, Len(a))
        r == NatDivSmall(high, 2 ^ (k % LimbBits))
    IN  <<r[1], r[2] # 0 \/ \E i \in DOMAIN low : low[i] # 0>>

NatOdd(a) == a # <<>> /\ a[1] % 2 = 1

\* ------------------------------------------------------------ f64
\* An f64 is [sign, exp, man]: the number (-1)^sign * man * 2^exp with
\* 2^52 <= man < 2^53 (man a natural number in limbs), or a zero, man = <<>>
\* and exp = 0.  Every operation rounds its exact result to the nearest such
\* number, ties to the even mantissa, as IEEE 754 binary64 does.  The values
\* of the counters stay far from the subnormal range, infinity and NaN.
Precision == 53
F64Zero == [sign |-> 0, exp |-> 0, man |-> <<>>]
F64NegZero == [sign |-> 1, exp |-> 0, man |-> <<>>]
IsZero(x) == x.man = <<>>
IsF64(x) ==
    /\ x.sign \in {0, 1}
    /\ x.exp \in Int
    /\ \A i \in DOMAIN x.man : x.man[i] \in 0 .. Base - 1
    /\ IF IsZero(x) THEN x.exp = 0 ELSE NatBitLen(x.man) = Precision
\* x != y on f64: the two zeros are equal
F64Ne(x, y) == x # y /\ ~(IsZero(x) /\ IsZero(y))

\* The f64 nearest to (-1)^sign * (n + f) * 2^e, where 0 <= f < 1 and
\* f > 0 exactly if `more`; `more` is used only with n of 55 bits or more.
F64Round(sign, n, e, more) ==
    LET len == NatBitLen(n) IN
    IF n = <<>> THEN [sign |-> sign, exp |-> 0, man |-> <<>>]
    ELSE IF len <= Precision
    THEN [sign |-> sign, exp |-> e - (Precision - len), man |-> NatShl(n, Precision - len)]
    ELSE LET drop == len - Precision
             q1 == NatShr(n, drop - 1)           \* 54 bits: mantissa and guard bit
             guard == NatOdd(q1[1])
             rest == q1[2] \/ more
             q == NatShr(q1[1], 1)[1]
             up == guard /\ (rest \/ NatOdd(q))
             m == IF up THEN NatAdd(q, <<1>>) ELSE q
         IN  IF NatBitLen(m) > Precision
             THEN [sign |-> sign, exp |-> e + drop + 1, man |-> NatShr(m, 1)[1]]
             ELSE [sign |-> sign, exp |-> e + drop, man |-> m]

F64Neg(x) == [x EXCEPT !.sign = 1 - @]

\* x + y
F64Add(x, y) ==
    IF IsZero(x) /\ IsZero(y) THEN (IF x.sign = 1 /\ y.sign = 1 THEN F64NegZero ELSE F64Zero)
    ELSE IF IsZero(x) THEN y
    ELSE IF IsZero(y) THEN x
    ELSE LET e == IF x.exp < y.exp THEN x.exp ELSE y.exp
             nx == NatShl(x.man, x.exp - e)
             ny == NatShl(y.man, y.exp - e)
             c == NatCmp(nx, ny)
         IN  IF x.sign = y.sign THEN F64Round(x.sign, NatAdd(nx, ny), e, FALSE)
             ELSE IF c = 0 THEN F64Zero
             ELSE IF c > 0 THEN F64Round(x.sign, NatSub(nx, ny), e, FALSE)
             ELSE F64Round(y.sign, NatSub(ny, nx), e, FALSE)

\* x - y
F64Sub(x, y) == F64Add(x, F64Neg(y))

\* x * y
F64Mul(x, y) ==
    LET sign == (x.sign + y.sign) % 2 IN
    IF IsZero(x) \/ IsZero(y) THEN [sign |-> sign, exp |-> 0, man |-> <<>>]
    ELSE F64Round(sign, NatMul(x.man, y.man), x.exp + y.exp, FALSE)

\* `k as f64` for a u64 k
F64FromU64(k) == F64Round(0, NatOf(k), 0, FALSE)

\* x * (k as f64) for a u64 k below Base: k as f64 is k, and the exact
\* product is rounded
F64Scale(x, k) ==
    IF IsZero(x) \/ k = 0 THEN [sign |-> x.sign, exp |-> 0, man |-> <<>>]
    ELSE F64Round(x.sign, NatMulSmall(x.man, k), x.exp, FALSE)

RECURSIVE OddPart(_)
OddPart(k) == IF k % 2 = 0 THEN OddPart(k \div 2) ELSE k
RECURSIVE TwoPart(_)
TwoPart(k) == IF k % 2 = 0 THEN 1 + TwoPart(k \div 2) ELSE 0

\* x / (k as f64) for an integer k > 0 whose odd part is below Base
F64DivBy(x, k) ==
    IF IsZero(x) THEN x
    ELSE LET spare == 2 * LimbBits
             r == NatDivSmall(NatShl(x.man, spare), OddPart(k))
         IN  F64Round(x.sign, r[1], x.exp - spare - TwoPart(k), r[2] # 0)

\* `v as f64 / 1e6f64` for a u64 v
MicroOf == [v \in U64 |-> F64DivBy(F64FromU64(v), 1000000)]
Micro(v) == MicroOf[v]

RECURSIVE SeqSum(_)
SeqSum(s) == IF s = <<>> THEN 0 ELSE s[1] + SeqSum(Tail(s))

VARIABLES
    now,        \* tv_sec of CLOCK_MONOTONIC
    pc,         \* position of each thread
    loc,        \* local variables of each thread
    event,      \* the EventCounter
    elapsed,    \* the ElapsedCounter
    interval,   \* the IntervalCounter
    calls,      \* history: EventCounter.increment calls returned, per thread
    stored,     \* history: set_count or reset touched the EventCounter
    begins,     \* history: ElapsedCounter.begin calls made
    span,       \* history: "begun" after begin(), "cancelled" after begin(); cancel()
    snap,       \* history: the aggregate fields and the start time in flight when
                \* that begin() was called, and the start time it stored
    samples,    \* history: observations handed to the ElapsedCounter, in order
    added,      \* history: the names add_counter was called with
    entry,      \* the builder Entry: <<name -> variant>>, or Moved
    registry,   \* the Registry made by bind(): <<name -> variant>>, or Unbound
    asked,      \* the name last passed to Registry::count on the registry held
    found,      \* what that call returned
    replaced,   \* history: <<name>> of the EventCounter with a count above 0 that
                \* add_counter last displaced in the builder, while there is one
    frozen,     \* history: the builder's map at the moment of bind(), kept while
                \* the registry is the one bind() returned, unedited
    origin,     \* history: the constructor that made the registry, "edited" once
                \* its map was changed in place
    bypassed,   \* history: the names of the builder were changed by something
                \* other than add_counter
    ops,        \* history: calls made on boxed counters through Entry_call and
                \* Registry_call
    clones,     \* the clones of the registry's Arc alive: Arc::strong_count - 1
    stuck,      \* the thread holding the builder and the registry is inside a
                \* call that does not return
    wiped,      \* history, per counter: its fields before each reset() of the
                \* latest run of consecutive reset() calls (the last two)
    clock_ok    \* whether clock_gettime succeeds

vars == <<now, pc, loc, event, elapsed, interval, calls, stored, begins, span, snap, samples,
          added, entry, registry, asked, found, replaced, frozen, origin, bypassed, stuck, ops, clones, wiped, clock_ok>>

threadVars == <<pc, loc>>
eventVars == <<event, calls, stored>>
elapsedVars == <<elapsed, begins, span, snap, samples>>
registryVars == <<added, entry, registry, asked, found, replaced, frozen, origin, bypassed, stuck, ops, clones>>

\* ------------------------------------------------------------- Default
EventCounterDefault == [event_count |-> 0]

ElapsedCounterDefault ==
    [event_count |-> 0, time_start |-> 0, time_total |-> 0,
     time_least |-> 0, time_most |-> 0, mean |-> F64Zero, m2 |-> F64Zero]

IntervalCounterDefault ==
    [event_count |-> 0, time_event |-> 0, time_first |-> 0, time_last |-> 0,
     time_least |-> 0, time_most |-> 0, mean |-> F64Zero, m2 |-> F64Zero]

LocDefault ==
    [arg |-> 0, ts |-> 0, time_start |-> 0, elapsed |-> 0, time_least |-> 0,
     time_most |-> 0, event_count |-> 0, mean |-> F64Zero, m2 |-> F64Zero]

Idle(t) == pc[t] = "idle"
\* The positions inside the methods of each counter.  A thread that
\* panicked has left the method it was in.
EventLabels == {"ev_store"}
ElapsedLabels ==
    {"begin_store", "end_load_start", "end_get_time", "end_underflow", "end_cas_start",
     "end_load_least", "end_cas_least", "end_add_count", "end_add_total", "end_load_most",
     "end_cas_most", "end_load_mean", "end_load_count", "end_cas_mean", "end_load_m2",
     "end_cas_m2", "se_add_count", "se_add_total", "se_load_least", "se_store_least",
     "se_load_most", "se_store_most", "se_load_mean", "se_load_count", "se_cas_mean",
     "se_load_m2", "se_cas_m2"}
IntervalLabels ==
    {"iv_load_count", "iv_store_first", "iv_seed_load_last", "iv_seed_underflow",
     "iv_seed_least", "iv_seed_most", "iv_seed_mean", "iv_seed_m2", "iv_load_last",
     "iv_underflow", "iv_load_least", "iv_store_least", "iv_load_most", "iv_store_most",
     "iv_load_mean", "iv_store_mean", "iv_store_m2", "iv_store_last", "iv_add_count"}
\* `&mut self`: no thread holds a reference to this counter, that is, none
\* is inside one of its methods.
Exclusive(labels) == \A t \in Threads : pc[t] \notin labels
Goto(t, label) == pc' = [pc EXCEPT ![t] = label]
SetLoc(t, r) == loc' = [loc EXCEPT ![t] = r]

\* --------------------------------------------------------------- clock
\* clock_gettime(CLOCK_MONOTONIC): non-decreasing seconds.
Tick ==
    /\ now < MaxTime
    /\ now' = now + 1
    /\ UNCHANGED <<pc, loc, event, elapsed, interval, calls, stored, begins, span, snap, samples,
                   added, entry, registry, asked, found, replaced, frozen, origin, bypassed, stuck, ops, clones, wiped, clock_ok>>

\* clock_gettime starts or stops failing; on failure it returns -1 and
\* leaves the timespec as default_timespec() made it.
ClockFlips ==
    /\ clock_ok' = ~clock_ok
    /\ UNCHANGED <<now, pc, loc, event, elapsed, interval, calls, stored, begins, span, snap,
                   samples, added, entry, registry, asked, found, replaced, frozen, origin, bypassed, stuck, ops, clones, wiped>>

\* ts.tv_sec after get_time(&mut ts), lines 64-66 and 76-77
TvSec == IF clock_ok THEN now ELSE 0

\* History of reset(): an operation on counter c ends its run of resets; a
\* reset() records the fields it found.
Touch(c) == wiped' = [wiped EXCEPT ![c] = <<>>]
Wipe(c, before) ==
    wiped' = [wiped EXCEPT ![c] = IF Len(@) < 2 THEN Append(@, before) ELSE <<@[2], before>>]
TouchIfCalled(t, c) == IF Idle(t) THEN Touch(c) ELSE UNCHANGED wiped

\* -------------------------------------------------------- EventCounter
\* What no EventCounter operation touches.
EventFrame ==
    UNCHANGED <<now, elapsed, interval, begins, span, snap, samples,
                added, entry, registry, asked, found, replaced, frozen, origin, bypassed, stuck, ops, clones, clock_ok>>

\* A racy increment: load, then store the loaded value plus one.
EventCounter_increment_racy(t) ==
    /\ calls[t] < MaxCalls
    /\ \/ /\ Idle(t)
          /\ Goto(t, "ev_store")
          /\ SetLoc(t, [LocDefault EXCEPT !.event_count = event.event_count])
          /\ UNCHANGED <<event, calls>>
       \/ /\ pc[t] = "ev_store"
          /\ event' = [event EXCEPT !.event_count = FetchAdd(loc[t].event_count, 1)]
          /\ calls' = [calls EXCEPT ![t] = @ + 1]
          /\ Goto(t, "idle")
          /\ SetLoc(t, LocDefault)
    /\ UNCHANGED stored
    /\ TouchIfCalled(t, "event")
    /\ EventFrame

\* EventCounter::increment: one fetch_add.
EventCounter_increment(t) ==
    /\ Idle(t)
    /\ calls[t] < MaxCalls
    /\ event' = [event EXCEPT !.event_count = FetchAdd(@, 1)]
    /\ calls' = [calls EXCEPT ![t] = @ + 1]
    /\ Touch("event")
    /\ UNCHANGED <<pc, loc, stored>>
    /\ EventFrame

\* EventCounter::set_count: one store.
EventCounter_set_count(t, count) ==
    /\ Idle(t)
    /\ event' = [event EXCEPT !.event_count = count]
    /\ stored' = TRUE
    /\ Touch("event")
    /\ UNCHANGED <<pc, loc, calls>>
    /\ EventFrame

\* Counter::reset on the EventCounter: `*self = T::default()`, which needs
\* `&mut self`, so no thread is inside a call on this counter.
EventCounter_reset ==
    /\ Exclusive(EventLabels)
    /\ event' = EventCounterDefault
    /\ stored' = TRUE
    /\ Wipe("event", event)
    /\ UNCHANGED <<pc, loc, calls>>
    /\ EventFrame

\* ------------------------------------------------------ ElapsedCounter
\* What no ElapsedCounter operation touches.
ElapsedFrame ==
    UNCHANGED <<now, event, interval, calls, stored,
                added, entry, registry, asked, found, replaced, frozen, origin, bypassed, stuck, ops, clones, clock_ok>>

\* The fields an observation is folded into.
Aggregate(c) ==
    [event_count |-> c.event_count, time_total |-> c.time_total,
     time_least |-> c.time_least, time_most |-> c.time_most]
NoSnap == [before |-> Aggregate(ElapsedCounterDefault), prior |-> 0, start |-> 0]
Store(field, v) == elapsed' = [elapsed EXCEPT ![field] = v]
Keep(t) == UNCHANGED loc

\* ElapsedCounter::begin, lines 64-67: get_time fills ts.
ElapsedCounter_begin_get_time(t) ==
    /\ Idle(t)
    /\ begins < MaxBegins
    /\ begins' = begins + 1
    /\ span' = "begun"
    /\ snap' = [before |-> Aggregate(elapsed), prior |-> elapsed.time_start, start |-> 0]
    /\ Goto(t, "begin_store")
    /\ SetLoc(t, [LocDefault EXCEPT !.ts = TvSec])
    /\ Touch("elapsed")
    /\ UNCHANGED <<elapsed, samples>>

\* A begin() that stores only when no start time is in flight.
ElapsedCounter_begin_store_if_free(t) ==
    /\ pc[t] = "begin_store"
    /\ IF elapsed.time_start = 0 THEN Store("time_start", loc[t].ts) ELSE UNCHANGED elapsed
    /\ snap' = [snap EXCEPT !.start = loc[t].ts]
    /\ Goto(t, "idle")
    /\ SetLoc(t, LocDefault)
    /\ UNCHANGED <<begins, span, samples, wiped>>

\* line 68: time_start.store(ts.tv_sec)
ElapsedCounter_begin_store(t) ==
    /\ pc[t] = "begin_store"
    /\ Store("time_start", loc[t].ts)
    /\ snap' = [snap EXCEPT !.start = loc[t].ts]
    /\ Goto(t, "idle")
    /\ SetLoc(t, LocDefault)
    /\ UNCHANGED <<begins, span, samples, wiped>>

ElapsedCounter_begin(t) ==
    /\ \/ ElapsedCounter_begin_get_time(t)
       \/ ElapsedCounter_begin_store(t)
    /\ ElapsedFrame

\* A cancel() that leaves the start time in place.
ElapsedCounter_cancel_keeps(t) ==
    /\ Idle(t)
    /\ Store("time_start", elapsed.time_start)
    /\ span' = IF span = "begun" THEN "cancelled" ELSE "none"
    /\ snap' = IF span = "begun" THEN snap ELSE NoSnap
    /\ Touch("elapsed")
    /\ UNCHANGED <<pc, loc, begins, samples>>
    /\ ElapsedFrame

\* ElapsedCounter::cancel, line 155: time_start.store(0)
ElapsedCounter_cancel(t) ==
    /\ Idle(t)
    /\ Store("time_start", 0)
    /\ span' = IF span = "begun" THEN "cancelled" ELSE "none"
    /\ snap' = IF span = "begun" THEN snap ELSE NoSnap
    /\ Touch("elapsed")
    /\ UNCHANGED <<pc, loc, begins, samples>>
    /\ ElapsedFrame

\* A reset() that clears the aggregate and leaves a begin() in flight.
ElapsedCounter_reset_keeps_start ==
    /\ Exclusive(ElapsedLabels)
    /\ elapsed' = [ElapsedCounterDefault EXCEPT !.time_start = elapsed.time_start]
    /\ samples' = <<>>
    /\ span' = "none"
    /\ snap' = NoSnap
    /\ Wipe("elapsed", elapsed)
    /\ UNCHANGED <<pc, loc, begins>>
    /\ ElapsedFrame

\* Counter::reset, lines 23 and 30-34: `*self = T::default()` under `&mut self`,
\* so no thread is inside a call on this counter.
ElapsedCounter_reset ==
    /\ Exclusive(ElapsedLabels)
    /\ elapsed' = ElapsedCounterDefault
    /\ samples' = <<>>
    /\ span' = "none"
    /\ snap' = NoSnap
    /\ Wipe("elapsed", elapsed)
    /\ UNCHANGED <<pc, loc, begins>>
    /\ ElapsedFrame

\* A swap that does not compare.
CasAlways(current, expected) == TRUE

\* compare_and_swap(expected, new) stores new exactly when the field still
\* holds the bits of expected (lines 79, 85, 98, 106, 111), and returns what
\* the field held.
CasSucceeds(current, expected) == current = expected

\* The condition of line 91, on the value loaded at line 83.
CountsSample(time_least, sample) == time_least = 0 \/ time_least > sample

\* mean + delta_interval * event_count, lines 105-106 and 136-137
NextMean(mean, dt, event_count) == F64Add(mean, F64Scale(F64Sub(dt, mean), event_count))
\* m2 + dt - mean, lines 111 and 142
NextM2(m2, dt, mean) == F64Sub(F64Add(m2, dt), mean)

\* ElapsedCounter::end, lines 72-116, one atomic operation per step.  The
\* loop has no break and no return: after the last statement of the body,
\* and after every `continue`, control is back at line 74.
\* `dt` (lines 105, 111) is not declared in end(); it is read as
\* `elapsed as f64 / 1e6f64`, its definition at line 131.
ElapsedCounter_end_step(t) ==
    LET l == loc[t]
        dt == Micro(l.elapsed)
    IN
    CASE Idle(t) ->
            /\ Goto(t, "end_load_start")
            /\ SetLoc(t, LocDefault)
            /\ UNCHANGED <<elapsed, samples>>
      [] pc[t] = "end_load_start" ->          \* line 74
            /\ SetLoc(t, [LocDefault EXCEPT !.time_start = elapsed.time_start])
            /\ Goto(t, "end_get_time")
            /\ UNCHANGED <<elapsed, samples>>
      [] pc[t] = "end_get_time" ->            \* lines 75-78
            /\ IF l.time_start > 0
               THEN /\ SetLoc(t, [l EXCEPT !.ts = TvSec,
                                           !.elapsed = WrappingSub(TvSec, l.time_start)])
                    /\ Goto(t, IF TvSec < l.time_start THEN "end_underflow"
                                                        ELSE "end_cas_start")
               ELSE /\ SetLoc(t, LocDefault)
                    /\ Goto(t, "end_load_start")
            /\ UNCHANGED <<elapsed, samples>>
      [] pc[t] = "end_underflow" ->           \* line 78: panic, or wrap
            /\ \E to \in {"panicked", "end_cas_start"} : Goto(t, to)
            /\ UNCHANGED <<loc, elapsed, samples>>
      [] pc[t] = "end_cas_start" ->           \* line 79
            /\ IF CasSucceeds(elapsed.time_start, l.time_start)
               THEN Store("time_start", 0) /\ Goto(t, "end_load_least") /\ Keep(t)
               ELSE UNCHANGED elapsed /\ Goto(t, "end_load_start") /\ SetLoc(t, LocDefault)
            /\ UNCHANGED samples
      [] pc[t] = "end_load_least" ->          \* lines 83-84 and 91
            /\ SetLoc(t, [l EXCEPT !.time_least = elapsed.time_least])
            /\ Goto(t, IF elapsed.time_least > l.elapsed THEN "end_cas_least"
                       ELSE IF CountsSample(elapsed.time_least, l.elapsed)
                            THEN "end_add_count" ELSE "end_load_most")
            /\ UNCHANGED <<elapsed, samples>>
      [] pc[t] = "end_cas_least" ->           \* lines 85-86 and 91
            /\ IF CasSucceeds(elapsed.time_least, l.time_least)
               THEN /\ Store("time_least", l.elapsed)
                    /\ Goto(t, IF CountsSample(l.time_least, l.elapsed)
                               THEN "end_add_count" ELSE "end_load_most")
                    /\ Keep(t)
               ELSE UNCHANGED elapsed /\ Goto(t, "end_load_start") /\ SetLoc(t, LocDefault)
            /\ UNCHANGED samples
      [] pc[t] = "end_add_count" ->           \* line 92
            /\ Store("event_count", FetchAdd(elapsed.event_count, 1))
            /\ samples' = Append(samples, l.elapsed)
            /\ Goto(t, "end_add_total")
            /\ Keep(t)
      [] pc[t] = "end_add_total" ->           \* line 93
            /\ Store("time_total", FetchAdd(elapsed.time_total, l.elapsed))
            /\ Goto(t, "end_load_most")
            /\ Keep(t)
            /\ UNCHANGED samples
      [] pc[t] = "end_load_most" ->           \* lines 96-97
            /\ SetLoc(t, [l EXCEPT !.time_most = elapsed.time_most])
            /\ Goto(t, IF elapsed.time_most < l.elapsed THEN "end_cas_most"
                                                         ELSE "end_load_mean")
            /\ UNCHANGED <<elapsed, samples>>
      [] pc[t] = "end_cas_most" ->            \* lines 98-99
            /\ IF CasSucceeds(elapsed.time_most, l.time_most)
               THEN Store("time_most", l.elapsed) /\ Goto(t, "end_load_mean") /\ Keep(t)
               ELSE UNCHANGED elapsed /\ Goto(t, "end_load_start") /\ SetLoc(t, LocDefault)
            /\ UNCHANGED samples
      [] pc[t] = "end_load_mean" ->           \* line 103
            /\ SetLoc(t, [l EXCEPT !.mean = elapsed.mean])
            /\ Goto(t, "end_load_count")
            /\ UNCHANGED <<elapsed, samples>>
      [] pc[t] = "end_load_count" ->          \* line 104
            /\ SetLoc(t, [l EXCEPT !.event_count = elapsed.event_count])
            /\ Goto(t, "end_cas_mean")
            /\ UNCHANGED <<elapsed, samples>>
      [] pc[t] = "end_cas_mean" ->            \* lines 105-107
            /\ IF CasSucceeds(elapsed.mean, l.mean)
               THEN Store("mean", NextMean(l.mean, dt, l.event_count))
               ELSE UNCHANGED elapsed
            /\ IF F64Ne(elapsed.mean, l.mean)   \* `!= mean`, on what was returned
               THEN Goto(t, "end_load_start") /\ SetLoc(t, LocDefault)
               ELSE Goto(t, "end_load_m2") /\ Keep(t)
            /\ UNCHANGED samples
      [] pc[t] = "end_load_m2" ->             \* line 110
            /\ SetLoc(t, [l EXCEPT !.m2 = elapsed.m2])
            /\ Goto(t, "end_cas_m2")
            /\ UNCHANGED <<elapsed, samples>>
      [] pc[t] = "end_cas_m2" ->              \* lines 111-115
            /\ IF CasSucceeds(elapsed.m2, l.m2)
               THEN /\ Store("m2", NextM2(l.m2, dt, l.mean))
               ELSE UNCHANGED elapsed
            /\ Goto(t, "end_load_start")
            /\ SetLoc(t, LocDefault)
            /\ UNCHANGED samples
      [] OTHER -> FALSE

ElapsedCounter_end(t) ==
    /\ ElapsedCounter_end_step(t)
    /\ TouchIfCalled(t, "elapsed")
    /\ UNCHANGED <<begins, span, snap>>
    /\ ElapsedFrame

\* The values set_elapsed is called with.
ElapsedArgs == {0, 1, U64Max}

\* ElapsedCounter::set_elapsed, lines 118-152, one atomic operation per
\* step.  The loop of lines 133-146 has no break: line 149 is never reached.
\* `self.time_least > elapsed` (lines 123, 127) is read as a load.
ElapsedCounter_set_elapsed_step(t, value) ==
    LET l == loc[t]
        dt == Micro(l.arg)                   \* line 131
        again == [LocDefault EXCEPT !.arg = l.arg]
    IN
    CASE Idle(t) ->                          \* line 119
            /\ IF value > 0
               THEN Goto(t, "se_add_count") /\ SetLoc(t, [LocDefault EXCEPT !.arg = value])
               ELSE UNCHANGED <<pc, loc>>
            /\ UNCHANGED <<elapsed, samples>>
      [] pc[t] = "se_add_count" ->           \* line 120
            /\ Store("event_count", FetchAdd(elapsed.event_count, 1))
            /\ samples' = Append(samples, l.arg)
            /\ Goto(t, "se_add_total")
            /\ Keep(t)
      [] pc[t] = "se_add_total" ->           \* line 121
            /\ Store("time_total", FetchAdd(elapsed.time_total, l.arg))
            /\ Goto(t, "se_load_least")
            /\ Keep(t)
            /\ UNCHANGED samples
      [] pc[t] = "se_load_least" ->          \* line 123
            /\ Goto(t, IF elapsed.time_least > l.arg THEN "se_store_least"
                                                     ELSE "se_load_most")
            /\ UNCHANGED <<loc, elapsed, samples>>
      [] pc[t] = "se_store_least" ->         \* line 124
            /\ Store("time_least", l.arg)
            /\ Goto(t, "se_load_most")
            /\ UNCHANGED <<loc, samples>>
      [] pc[t] = "se_load_most" ->           \* line 127
            /\ Goto(t, IF elapsed.time_most < l.arg THEN "se_store_most"
                                                    ELSE "se_load_mean")
            /\ UNCHANGED <<loc, elapsed, samples>>
      [] pc[t] = "se_store_most" ->          \* line 128
            /\ Store("time_most", l.arg)
            /\ Goto(t, "se_load_mean")
            /\ UNCHANGED <<loc, samples>>
      [] pc[t] = "se_load_mean" ->           \* line 134
            /\ SetLoc(t, [l EXCEPT !.mean = elapsed.mean])
            /\ Goto(t, "se_load_count")
            /\ UNCHANGED <<elapsed, samples>>
      [] pc[t] = "se_load_count" ->          \* line 135
            /\ SetLoc(t, [l EXCEPT !.event_count = elapsed.event_count])
            /\ Goto(t, "se_cas_mean")
            /\ UNCHANGED <<elapsed, samples>>
      [] pc[t] = "se_cas_mean" ->            \* lines 136-139
            /\ IF CasSucceeds(elapsed.mean, l.mean)
               THEN Store("mean", NextMean(l.mean, dt, l.event_count))
               ELSE UNCHANGED elapsed
            /\ IF F64Ne(elapsed.mean, l.mean)   \* `!= mean`, on what was returned
               THEN Goto(t, "se_load_mean") /\ SetLoc(t, again)
               ELSE Goto(t, "se_load_m2") /\ Keep(t)
            /\ UNCHANGED samples
      [] pc[t] = "se_load_m2" ->             \* line 141
            /\ SetLoc(t, [l EXCEPT !.m2 = elapsed.m2])
            /\ Goto(t, "se_cas_m2")
            /\ UNCHANGED <<elapsed, samples>>
      [] pc[t] = "se_cas_m2" ->              \* lines 142-146
            /\ IF CasSucceeds(elapsed.m2, l.m2)
               THEN /\ Store("m2", NextM2(l.m2, dt, l.mean))
               ELSE UNCHANGED elapsed
            /\ Goto(t, "se_load_mean")
            /\ SetLoc(t, again)
            /\ UNCHANGED samples
      [] OTHER -> FALSE

ElapsedCounter_set_elapsed(t, value) ==
    /\ Idle(t) \/ value = loc[t].arg          \* a running call keeps its argument
    /\ ElapsedCounter_set_elapsed_step(t, value)
    /\ IF Idle(t) /\ value > 0
       THEN span' = "none" /\ snap' = NoSnap
       ELSE UNCHANGED <<span, snap>>
    /\ TouchIfCalled(t, "elapsed")
    /\ UNCHANGED begins
    /\ ElapsedFrame

\* ----------------------------------------------------- IntervalCounter
IntervalFrame ==
    UNCHANGED <<now, event, elapsed, calls, stored, begins, span, snap, samples,
                added, entry, registry, asked, found, replaced, frozen, origin, bypassed, stuck, ops, clones, clock_ok>>

\* What clock_gettime returns on success; line 177 takes this return code,
\* not the time it wrote to ts, as `now`.
GetTimeOk == 0

StoreI(field, v) == interval' = [interval EXCEPT ![field] = v]

\* IntervalCounter::increment, lines 175-213, one atomic operation per step.
\* The match arm for count 0 (line 182) has no break, so the loop goes back
\* to line 180.  Locals: ts is `now`, event_count is `count`/`co`, elapsed is
\* `last_time`/`interval`, mean is `delta_interval`, m2 is the new `mean`.
IntervalCounter_increment_step(t) ==
    LET l == loc[t]
        dt == Micro(l.elapsed)               \* line 200
    IN
    CASE Idle(t) ->                          \* lines 176-177
            /\ IF clock_ok
               THEN Goto(t, "iv_load_count") /\ SetLoc(t, [LocDefault EXCEPT !.ts = GetTimeOk])
               ELSE Goto(t, "panicked") /\ SetLoc(t, LocDefault)   \* try_from(-1).unwrap()
            /\ UNCHANGED interval
      [] pc[t] = "iv_load_count" ->          \* lines 180-181
            /\ SetLoc(t, [l EXCEPT !.event_count = interval.event_count])
            /\ Goto(t, IF interval.event_count = 0 THEN "iv_store_first"
                       ELSE IF interval.event_count = 1 THEN "iv_seed_load_last"
                       ELSE "iv_load_last")
            /\ UNCHANGED interval
      [] pc[t] = "iv_store_first" ->         \* line 182
            /\ StoreI("time_first", l.ts)
            /\ Goto(t, "iv_load_count")
            /\ UNCHANGED loc
      [] pc[t] = "iv_seed_load_last" ->      \* line 184
            /\ SetLoc(t, [l EXCEPT !.elapsed = WrappingSub(l.ts, interval.time_last)])
            /\ Goto(t, IF l.ts < interval.time_last THEN "iv_seed_underflow"
                                                     ELSE "iv_seed_least")
            /\ UNCHANGED interval
      [] pc[t] = "iv_seed_underflow" ->      \* line 184: panic, or wrap
            /\ \E to \in {"panicked", "iv_seed_least"} : Goto(t, to)
            /\ UNCHANGED <<loc, interval>>
      [] pc[t] = "iv_seed_least" ->          \* line 185
            /\ StoreI("time_least", l.elapsed)
            /\ Goto(t, "iv_seed_most")
            /\ UNCHANGED loc
      [] pc[t] = "iv_seed_most" ->           \* line 186
            /\ StoreI("time_most", l.elapsed)
            /\ Goto(t, "iv_seed_mean")
            /\ UNCHANGED loc
      [] pc[t] = "iv_seed_mean" ->           \* line 187
            /\ StoreI("mean", Micro(l.elapsed))
            /\ Goto(t, "iv_seed_m2")
            /\ UNCHANGED loc
      [] pc[t] = "iv_seed_m2" ->             \* lines 188-189
            /\ StoreI("m2", F64Zero)
            /\ Goto(t, "iv_store_last")
            /\ UNCHANGED loc
      [] pc[t] = "iv_load_last" ->           \* line 192
            /\ SetLoc(t, [l EXCEPT !.elapsed = WrappingSub(l.ts, interval.time_last)])
            /\ Goto(t, IF l.ts < interval.time_last THEN "iv_underflow"
                                                     ELSE "iv_load_least")
            /\ UNCHANGED interval
      [] pc[t] = "iv_underflow" ->           \* line 192: panic, or wrap
            /\ \E to \in {"panicked", "iv_load_least"} : Goto(t, to)
            /\ UNCHANGED <<loc, interval>>
      [] pc[t] = "iv_load_least" ->          \* line 193
            /\ Goto(t, IF l.elapsed < interval.time_least THEN "iv_store_least"
                                                          ELSE "iv_load_most")
            /\ UNCHANGED <<loc, interval>>
      [] pc[t] = "iv_store_least" ->         \* line 194
            /\ StoreI("time_least", l.elapsed)
            /\ Goto(t, "iv_load_most")
            /\ UNCHANGED loc
      [] pc[t] = "iv_load_most" ->           \* line 196
            /\ Goto(t, IF l.elapsed > interval.time_most THEN "iv_store_most"
                                                         ELSE "iv_load_mean")
            /\ UNCHANGED <<loc, interval>>
      [] pc[t] = "iv_store_most" ->          \* line 197
            /\ StoreI("time_most", l.elapsed)
            /\ Goto(t, "iv_load_mean")
            /\ UNCHANGED loc
      [] pc[t] = "iv_load_mean" ->           \* lines 200-202
            /\ SetLoc(t, [l EXCEPT
                   !.mean = F64Sub(dt, interval.mean),
                   !.m2 = F64DivBy(F64Sub(dt, interval.mean), l.event_count)])
            /\ Goto(t, "iv_store_mean")
            /\ UNCHANGED interval
      [] pc[t] = "iv_store_mean" ->          \* line 203
            /\ StoreI("mean", l.m2)
            /\ Goto(t, "iv_store_m2")
            /\ UNCHANGED loc
      [] pc[t] = "iv_store_m2" ->            \* lines 204-205
            /\ StoreI("m2", F64Mul(l.mean, F64Sub(dt, l.m2)))
            /\ Goto(t, "iv_store_last")
            /\ UNCHANGED loc
      [] pc[t] = "iv_store_last" ->          \* line 210
            /\ StoreI("time_last", l.ts)
            /\ Goto(t, "iv_add_count")
            /\ UNCHANGED loc
      [] pc[t] = "iv_add_count" ->           \* lines 211-213
            /\ StoreI("event_count", FetchAdd(interval.event_count, 1))
            /\ Goto(t, "idle")
            /\ SetLoc(t, LocDefault)
      [] OTHER -> FALSE

IntervalCounter_increment(t) ==
    /\ IntervalCounter_increment_step(t)
    /\ TouchIfCalled(t, "interval")
    /\ IntervalFrame

\* Counter::reset on the IntervalCounter, lines 23 and 30-34.
IntervalCounter_reset ==
    /\ Exclusive(IntervalLabels)
    /\ interval' = IntervalCounterDefault
    /\ Wipe("interval", interval)
    /\ UNCHANGED <<pc, loc>>
    /\ IntervalFrame

\* ------------------------------------------------------------ registry
RegistryFrame ==
    UNCHANGED <<now, pc, loc, event, elapsed, interval, calls, stored, begins,
                span, snap, samples, wiped, clock_ok>>

Names == {"requests", "latency", "missing"}
\* The names the builder is given; "missing" is only ever looked up.
Added == {"requests", "latency"}
Variants == {"EventCounter", "ElapsedCounter", "IntervalCounter"}
\* The builder and the registry are <<map>> while they exist.
Moved == <<>>
Unbound == <<>>
EmptyMap == [k \in {} |-> [variant |-> "EventCounter", event_count |-> 0, time_start |-> 0]]
NoResult == [tag |-> "none", counter |-> ""]
NotAsked == ""

\* Box::new(T::default()), line 58: a counter of the requested variant with
\* every field zero.  Of a boxed counter the map keeps the variant, the
\* event_count field and, for an ElapsedCounter, the time_start field.
Default(variant) == [variant |-> variant, event_count |-> 0, time_start |-> 0]
\* The values set_count is called with where only the extremes matter.
CountArgs == {0, U64Max}
\* Counter::set_count through the trait object: EventCounter stores the
\* count (line 46), the other variants keep the trait's empty body (line 21).
Counter_set_count(counter, count) ==
    IF counter.variant = "EventCounter" THEN [counter EXCEPT !.event_count = count]
    ELSE counter

\* What a call on a boxed counter leaves: the counter, and whether the call
\* came back.
Returns(counter) == [counter |-> counter, returns |-> TRUE]
Never(counter) == [counter |-> counter, returns |-> FALSE]

\* Counter::begin through the trait object: ElapsedCounter stores tv_sec
\* (lines 63-70), the other variants keep the trait's empty body (line 17).
Counter_begin(counter) ==
    IF counter.variant = "ElapsedCounter"
    THEN {Returns([counter EXCEPT !.time_start = TvSec])}
    ELSE {Returns(counter)}

\* Counter::increment through the trait object.  EventCounter: one fetch_add
\* (line 44).  ElapsedCounter: the trait's empty body (line 18).
\* IntervalCounter: with a failing clock the unwrap at line 177 panics; with
\* event_count 0 the arm at line 182 stores time_first and the loop goes
\* round for ever; the arms for 1 and more break and line 211 adds one.
Counter_increment(counter) ==
    CASE counter.variant = "EventCounter" ->
           {Returns([counter EXCEPT !.event_count = FetchAdd(@, 1)])}
      [] counter.variant = "ElapsedCounter" -> {Returns(counter)}
      [] counter.variant = "IntervalCounter" ->
           IF ~clock_ok \/ counter.event_count = 0 THEN {Never(counter)}
           ELSE {Returns([counter EXCEPT !.event_count = FetchAdd(@, 1)])}

\* Counter::end through the trait object.  ElapsedCounter, lines 72-116: the
\* loop has no exit; with a start time it is claimed and, time_least being
\* 0, the event is counted once.  tv_sec - time_start below zero panics in a
\* debug build and wraps in a release build.  The other variants keep the
\* trait's empty body (line 19).
Counter_end(counter) ==
    IF counter.variant # "ElapsedCounter" THEN {Returns(counter)}
    ELSE IF counter.time_start = 0 THEN {Never(counter)}
    ELSE LET counted == [counter EXCEPT !.time_start = 0,
                                        !.event_count = FetchAdd(@, 1)]
         IN  IF TvSec >= counter.time_start THEN {Never(counted)}
             ELSE {Never(counter), Never(counted)}

\* Counter::set_elapsed through the trait object.  ElapsedCounter, lines
\* 118-152: a value above 0 is counted and the loop at line 131 has no exit.
\* The other variants keep the trait's empty body (line 20).
Counter_set_elapsed(counter, value) ==
    IF counter.variant = "ElapsedCounter" /\ value > 0
    THEN {Never([counter EXCEPT !.event_count = FetchAdd(@, 1)])}
    ELSE {Returns(counter)}

\* Counter::cancel through the trait object: ElapsedCounter stores 0 to
\* time_start (lines 154-156), the others keep the empty body (line 22).
Counter_cancel(counter) ==
    IF counter.variant = "ElapsedCounter"
    THEN {Returns([counter EXCEPT !.time_start = 0])}
    ELSE {Returns(counter)}

\* Counter::reset through the trait object, lines 23 and 30-34: the default
\* of the counter's own type.
Counter_reset(counter) == {Returns(Default(counter.variant))}

\* The methods of the Counter trait that take `&self`, and the arguments
\* set_elapsed is called with on a boxed counter.
Methods == {"begin", "increment", "end", "set_elapsed", "cancel"}
BoxedArgs == {0, 1}
\* Only set_elapsed takes an argument (lib.rs line 20).
ArgsOf(method) == IF method = "set_elapsed" THEN BoxedArgs ELSE {0}
Counter_call(counter, method, value) ==
    CASE method = "begin" -> Counter_begin(counter)
      [] method = "increment" -> Counter_increment(counter)
      [] method = "end" -> Counter_end(counter)
      [] method = "set_elapsed" -> Counter_set_elapsed(counter, value)
      [] method = "cancel" -> Counter_cancel(counter)
      [] method = "reset" -> Counter_reset(counter)

\* An insert that keeps the entry already stored under the key.
InsertIfAbsent(map, key, value) ==
    [k \in DOMAIN map \cup {key} |-> IF k \in DOMAIN map THEN map[k] ELSE value]

\* HashMap::insert
Insert(map, key, value) ==
    [k \in DOMAIN map \cup {key} |-> IF k = key THEN value ELSE map[k]]

\* HashMap::remove
Remove(map, key) == [k \in DOMAIN map \ {key} |-> map[k]]

\* A collect that loses the entries of one variant.
from_entries_events_only(entries) ==
    LET pairs == {<<k, entries[k]>> : k \in DOMAIN entries}
        kept == {p \in pairs : p[2].variant = "EventCounter"}
    IN  [k \in {p[1] : p \in kept} |-> (CHOOSE p \in kept : p[1] = k)[2]]

\* Registry::from_entries, lines 24-28: the entries are collected again.
from_entries(entries) ==
    LET pairs == {<<k, entries[k]>> : k \in DOMAIN entries}
    IN  [k \in {p[1] : p \in pairs} |-> (CHOOSE p \in pairs : p[1] = k)[2]]

\* A lookup whose error forgets the name it was asked for.
count_result_anonymous(counters, name) ==
    IF name \in DOMAIN counters THEN [tag |-> "ok", counter |-> ""]
    ELSE [tag |-> "err", counter |-> ""]

\* Registry::count, lines 30-35: Ok(()), or CounterNotFoundError {counter: name}
count_result(counters, name) ==
    IF name \in DOMAIN counters THEN [tag |-> "ok", counter |-> ""]
    ELSE [tag |-> "err", counter |-> name]

\* Entry::add_counter, lines 57-59
Entry_add_counter(name, variant) ==
    /\ ~stuck
    /\ entry # Moved
    /\ entry' = <<Insert(entry[1], name, Default(variant))>>
    /\ added' = added \cup {name}
    /\ replaced' = IF /\ name \in DOMAIN entry[1]
                      /\ entry[1][name].variant = "EventCounter"
                      /\ entry[1][name].event_count > 0
                   THEN <<name>>
                   ELSE replaced
    /\ UNCHANGED <<registry, asked, found, frozen, origin, bypassed, stuck, ops, clones>>
    /\ RegistryFrame

\* HashMap::remove on the builder, through DerefMut (lines 50-54); retain
\* and drain_filter take out several names at once.
Entry_remove(name) ==
    /\ ~stuck
    /\ entry # Moved
    /\ entry' = <<Remove(entry[1], name)>>
    /\ bypassed' = (bypassed \/ name \in DOMAIN entry[1])
    /\ UNCHANGED <<added, registry, asked, found, replaced, frozen, origin, stuck, ops, clones>>
    /\ RegistryFrame

\* HashMap::clear (or drain) on the builder, through DerefMut (lines 50-54).
Entry_clear ==
    /\ ~stuck
    /\ entry # Moved
    /\ entry' = <<EmptyMap>>
    /\ bypassed' = (bypassed \/ DOMAIN entry[1] # {})
    /\ UNCHANGED <<added, registry, asked, found, replaced, frozen, origin, stuck, ops, clones>>
    /\ RegistryFrame

\* Reset::reset_it on the builder (lib.rs lines 30-34): Entry derives
\* Default (registry.rs line 38), so the builder becomes Entry::default().
Entry_reset_it ==
    /\ ~stuck
    /\ entry # Moved
    /\ entry' = <<EmptyMap>>
    /\ bypassed' = (bypassed \/ DOMAIN entry[1] # {})
    /\ UNCHANGED <<added, registry, asked, found, replaced, frozen, origin, stuck, ops, clones>>
    /\ RegistryFrame

\* HashMap::insert on the builder, through DerefMut (lines 50-54), of a
\* counter the caller boxed.
Entry_insert(name, counter) ==
    /\ ~stuck
    /\ entry # Moved
    /\ entry' = <<Insert(entry[1], name, counter)>>
    /\ bypassed' = (bypassed \/ name \notin DOMAIN entry[1])
    /\ UNCHANGED <<added, registry, asked, found, replaced, frozen, origin, stuck, ops, clones>>
    /\ RegistryFrame

\* A counter of the builder used through DerefMut (lines 50-54) before bind().
Entry_set_count(name, count) ==
    /\ ~stuck
    /\ entry # Moved
    /\ name \in DOMAIN entry[1]
    /\ entry' = <<[entry[1] EXCEPT ![name] = Counter_set_count(@, count)]>>
    /\ UNCHANGED <<added, registry, asked, found, replaced, frozen, origin, bypassed, stuck, ops, clones>>
    /\ RegistryFrame

\* Any other method of a counter of the builder, reached through Deref and
\* DerefMut (lines 42-54); reset() takes the `&mut` that get_mut gives.
Entry_call(name, method, value) ==
    /\ ~stuck
    /\ ops < MaxOps
    /\ entry # Moved
    /\ name \in DOMAIN entry[1]
    /\ \E out \in Counter_call(entry[1][name], method, value) :
          /\ entry' = <<[entry[1] EXCEPT ![name] = out.counter]>>
          /\ stuck' = ~out.returns
    /\ ops' = ops + 1
    /\ UNCHANGED <<added, registry, asked, found, replaced, frozen, origin, bypassed, clones>>
    /\ RegistryFrame

\* Entry::bind, lines 61-63: consumes the builder
Entry_bind ==
    /\ ~stuck
    /\ entry # Moved
    /\ registry' = <<from_entries(entry[1])>>
    /\ frozen' = entry[1]
    /\ origin' = "bind"
    /\ clones' = 0                           \* a new Arc
    /\ entry' = Moved
    /\ replaced' = <<>>
    /\ asked' = NotAsked
    /\ found' = NoResult
    /\ UNCHANGED <<added, bypassed, stuck, ops>>
    /\ RegistryFrame

\* Registry::create, lines 20-22: the default Registry, an empty map.
Registry_create ==
    /\ ~stuck
    /\ registry' = <<EmptyMap>>
    /\ origin' = "create"
    /\ clones' = 0                           \* a new Arc
    /\ asked' = NotAsked
    /\ found' = NoResult
    /\ frozen' = EmptyMap
    /\ UNCHANGED <<entry, added, replaced, bypassed, stuck, ops>>
    /\ RegistryFrame

\* The maps Registry::from_entries is handed without a builder.
EntryMaps == {Insert(EmptyMap, "latency", Default("ElapsedCounter"))}

\* Registry::from_entries called on a map of the caller's, lines 24-28.
Registry_from_entries(entries) ==
    /\ ~stuck
    /\ registry' = <<from_entries(entries)>>
    /\ origin' = "from_entries"
    /\ clones' = 0                           \* a new Arc
    /\ asked' = NotAsked
    /\ found' = NoResult
    /\ frozen' = EmptyMap
    /\ UNCHANGED <<entry, added, replaced, bypassed, stuck, ops>>
    /\ RegistryFrame

Registry_count(name) ==
    /\ ~stuck
    /\ registry # Unbound
    /\ asked' = name
    /\ found' = count_result(registry[1], name)
    /\ UNCHANGED <<entry, registry, added, replaced, frozen, origin, bypassed, stuck, ops, clones>>
    /\ RegistryFrame

\* A counter of the registry used through Deref (lines 11-17):
\* the map is behind an Arc, only the counter's atomic field changes.
Registry_set_count(name, count) ==
    /\ ~stuck
    /\ registry # Unbound
    /\ name \in DOMAIN registry[1]
    /\ registry' = <<[registry[1] EXCEPT ![name] = Counter_set_count(@, count)]>>
    /\ UNCHANGED <<entry, added, asked, found, replaced, frozen, origin, bypassed, stuck, ops, clones>>
    /\ RegistryFrame

\* Reset::reset_it on the registry (lib.rs lines 30-34): Registry derives
\* Default (registry.rs line 8), so it becomes Registry::default(), as
\* create() returns.
Registry_reset_it ==
    /\ ~stuck
    /\ registry # Unbound
    /\ registry' = <<EmptyMap>>
    /\ origin' = "create"
    /\ clones' = 0                           \* a new Arc
    /\ asked' = NotAsked
    /\ found' = NoResult
    /\ frozen' = EmptyMap
    /\ UNCHANGED <<entry, added, replaced, bypassed, stuck, ops>>
    /\ RegistryFrame

\* Arc::clone of the public field (line 9): one more strong reference.
Registry_clone ==
    /\ ~stuck
    /\ registry # Unbound
    /\ clones < MaxClones
    /\ clones' = clones + 1
    /\ UNCHANGED <<entry, registry, added, asked, found, replaced, frozen, origin, bypassed,
                   stuck, ops>>
    /\ RegistryFrame

\* The drop of one clone of the registry's Arc: one strong reference less.
Registry_drop_clone ==
    /\ ~stuck
    /\ clones > 0
    /\ clones' = clones - 1
    /\ UNCHANGED <<entry, registry, added, asked, found, replaced, frozen, origin, bypassed,
                   stuck, ops>>
    /\ RegistryFrame

\* HashMap::insert on the registry's map, reached through the public field
\* (line 9) with Arc::get_mut, which gives the map while the Arc has no clone alive.
Registry_insert(name, variant) ==
    /\ ~stuck
    /\ registry # Unbound
    /\ clones = 0                            \* Arc::get_mut gives Some
    /\ registry' = <<Insert(registry[1], name, Default(variant))>>
    /\ origin' = "edited"
    /\ asked' = NotAsked
    /\ found' = NoResult
    /\ frozen' = EmptyMap
    /\ UNCHANGED <<entry, added, replaced, bypassed, stuck, ops, clones>>
    /\ RegistryFrame

\* HashMap::remove on the registry's map, reached the same way.
Registry_remove(name) ==
    /\ ~stuck
    /\ registry # Unbound
    /\ clones = 0                            \* Arc::get_mut gives Some
    /\ name \in DOMAIN registry[1]
    /\ registry' = <<Remove(registry[1], name)>>
    /\ origin' = "edited"
    /\ asked' = NotAsked
    /\ found' = NoResult
    /\ frozen' = EmptyMap
    /\ UNCHANGED <<entry, added, replaced, bypassed, stuck, ops, clones>>
    /\ RegistryFrame

\* Any other `&self` method of a counter of the registry, reached through
\* Deref (lines 11-17).
Registry_call(name, method, value) ==
    /\ ~stuck
    /\ ops < MaxOps
    /\ registry # Unbound
    /\ name \in DOMAIN registry[1]
    /\ \E out \in Counter_call(registry[1][name], method, value) :
          /\ registry' = <<[registry[1] EXCEPT ![name] = out.counter]>>
          /\ stuck' = ~out.returns
    /\ ops' = ops + 1
    /\ UNCHANGED <<entry, added, asked, found, replaced, frozen, origin, bypassed, clones>>
    /\ RegistryFrame


Init ==
    /\ now = 0
    /\ pc = [t \in Threads |-> "idle"]
    /\ loc = [t \in Threads |-> LocDefault]
    /\ event = EventCounterDefault
    /\ elapsed = ElapsedCounterDefault
    /\ interval = IntervalCounterDefault
    /\ calls = [t \in Threads |-> 0]
    /\ stored = FALSE
    /\ begins = 0
    /\ span = "none"
    /\ snap = NoSnap
    /\ samples = <<>>
    /\ added = {}
    /\ entry = <<EmptyMap>>
    /\ registry = Unbound
    /\ asked = NotAsked
    /\ found = NoResult
    /\ replaced = <<>>
    /\ frozen = EmptyMap
    /\ origin = "none"
    /\ bypassed = FALSE
    /\ stuck = FALSE
    /\ ops = 0
    /\ clones = 0
    /\ wiped = [c \in {"event", "elapsed", "interval"} |-> <<>>]
    /\ clock_ok = TRUE

\* A thread inside a call takes the next step of that call.
InCall(t) == ~Idle(t)
Continue(t) ==
    /\ InCall(t)
    /\ \/ ElapsedCounter_begin(t)
       \/ ElapsedCounter_end(t)
       \/ ElapsedCounter_set_elapsed(t, loc[t].arg)
       \/ IntervalCounter_increment(t)

\* The threads inside the loop of set_elapsed (lines 133-146), or on their
\* way to it; the loop has no exit.
SetElapsedLabels ==
    {"se_add_count", "se_add_total", "se_load_least", "se_store_least", "se_load_most",
     "se_store_most", "se_load_mean", "se_load_count", "se_cas_mean", "se_load_m2",
     "se_cas_m2"}
Setters == {t \in Threads : pc[t] \in SetElapsedLabels}

\* The observations of begin()/end() in flight: a start time stored and not
\* yet claimed (line 68), a begin() about to store one, an end() past its load
\* of a start time (line 74) and not yet back at it.
InFlight ==
    (IF elapsed.time_start # 0 THEN 1 ELSE 0)
    + Cardinality({t \in Threads :
         \/ pc[t] \in ElapsedLabels \ (SetElapsedLabels \cup {"end_load_start", "end_get_time"})
         \/ pc[t] = "end_get_time" /\ loc[t].time_start # 0})

\* The calls Spec makes.  A loop of set_elapsed that runs next to other
\* changes of mean and m2, or on top of two observations, can go on writing
\* values it has not written before, pass after pass: the rounded sums
\* drift.  Spec therefore calls set_elapsed(v > 0) when at most MaxOverlap
\* observations are in flight and fewer than MaxSamples are counted, and calls
\* begin() when at most MaxOverlap set_elapsed loops run.  A call that has
\* started is never held back.
CallsBegin(t) == Idle(t) => Cardinality(Setters) <= MaxOverlap
CallsSetElapsed(t, value) ==
    (Idle(t) /\ value > 0) =>
        /\ InFlight + Cardinality(Setters) <= MaxOverlap
        /\ elapsed.event_count < MaxSamples

ElapsedNext ==
    \/ Tick
    \/ \E t \in Threads : ElapsedCounter_begin(t) /\ CallsBegin(t)
    \/ \E t \in Threads : ElapsedCounter_end(t)
    \/ \E t \in Threads, value \in ElapsedArgs :
          ElapsedCounter_set_elapsed(t, value) /\ CallsSetElapsed(t, value)
    \/ \E t \in Threads : ElapsedCounter_cancel(t)
    \/ ElapsedCounter_reset

\* Threads run in parallel: a call that has started keeps taking steps.
Spec == Init /\ [][ElapsedNext]_vars /\ \A t \in Threads : WF_vars(Continue(t))

\* One thread alone on the ElapsedCounter.
SeqNext ==
    \/ Tick
    \/ ElapsedCounter_begin(1)
    \/ ElapsedCounter_end(1)
    \/ \E value \in ElapsedArgs : ElapsedCounter_set_elapsed(1, value)
    \/ ElapsedCounter_cancel(1)
    \/ ElapsedCounter_reset

SpecSeq == Init /\ [][SeqNext]_vars /\ WF_vars(Continue(1))

\* One thread running begin(); wait; end() pairs and nothing else.
PairsNext ==
    \/ Tick
    \/ ElapsedCounter_begin(1) /\ (Idle(1) => span # "begun")
    \/ ElapsedCounter_end(1) /\ (Idle(1) => span = "begun")

SpecPairs == Init /\ [][PairsNext]_vars /\ WF_vars(Continue(1))

EventNext ==
    \/ \E t \in Threads : EventCounter_increment(t)
    \/ \E t \in Threads, count \in U64 : EventCounter_set_count(t, count)
    \/ EventCounter_reset

\* The EventCounter and the IntervalCounter shared by all threads.
CountersNext ==
    \/ EventNext
    \/ \E t \in Threads : IntervalCounter_increment(t)

SpecCounters ==
    Init /\ [][CountersNext]_vars /\ \A t \in Threads : WF_vars(Continue(t))

\* begin, end and cancel from all threads, with a clock that can fail.
ClockNext ==
    \/ Tick
    \/ ClockFlips
    \/ \E t \in Threads : ElapsedCounter_begin(t)
    \/ \E t \in Threads : ElapsedCounter_end(t)
    \/ \E t \in Threads : ElapsedCounter_cancel(t)

SpecClock == Init /\ [][ClockNext]_vars /\ \A t \in Threads : WF_vars(Continue(t))

\* One begin(), by any thread, and end() from all threads.
EndsNext ==
    \/ Tick
    \/ \E t \in Threads : ElapsedCounter_begin(t) /\ (Idle(t) => begins = 0)
    \/ \E t \in Threads : ElapsedCounter_end(t)

SpecEnds == Init /\ [][EndsNext]_vars /\ \A t \in Threads : WF_vars(Continue(t))

\* One thread using the three counters with a clock that can fail, and
\* reset() of each.
ResetNext ==
    \/ SeqNext
    \/ ClockFlips
    \/ EventCounter_increment(1)
    \/ \E count \in CountArgs : EventCounter_set_count(1, count)
    \/ EventCounter_reset
    \/ IntervalCounter_increment(1)
    \/ IntervalCounter_reset

SpecReset == Init /\ [][ResetNext]_vars /\ WF_vars(Continue(1))

\* The builder alone, up to bind().
EntryNext ==
    \/ Tick /\ now = 0
    \/ \E name \in Added, variant \in Variants : Entry_add_counter(name, variant)
    \/ \E name \in Added : Entry_remove(name)
    \/ Entry_clear
    \/ Entry_reset_it
    \/ Entry_insert("missing", Default("EventCounter"))
    \/ \E name \in Added, count \in CountArgs : Entry_set_count(name, count)
    \/ \E name \in Added, method \in Methods \cup {"reset"} : \E value \in ArgsOf(method) :
          Entry_call(name, method, value)
    \/ Entry_bind

SpecEntry == Init /\ [][EntryNext]_vars

RegistryNext ==
    \/ Tick /\ now = 0
    \/ \E name \in Added, variant \in Variants : Entry_add_counter(name, variant)
    \/ \E name \in Added : Entry_remove(name)
    \/ Entry_clear
    \/ Entry_reset_it
    \/ Entry_insert("missing", Default("EventCounter"))
    \/ \E name \in Added, count \in CountArgs : Entry_set_count(name, count)
    \/ \E name \in Added, method \in Methods \cup {"reset"} : \E value \in ArgsOf(method) :
          Entry_call(name, method, value)
    \/ Entry_bind
    \/ Registry_create
    \/ \E entries \in EntryMaps : Registry_from_entries(entries)
    \/ \E name \in Names : Registry_count(name)
    \/ Registry_reset_it
    \/ Registry_clone
    \/ Registry_drop_clone
    \/ Registry_insert("missing", "EventCounter")
    \/ \E name \in Names : Registry_remove(name)
    \/ \E name \in Names, count \in CountArgs : Registry_set_count(name, count)
    \/ \E name \in Names, method \in Methods : \E value \in ArgsOf(method) :
          Registry_call(name, method, value)

SpecRegistry == Init /\ [][RegistryNext]_vars

\* --------------------------------------------------------------- types
EventCounterType == event.event_count \in U64

ElapsedCounterType ==
    /\ \A f \in {"event_count", "time_start", "time_total", "time_least", "time_most"} :
          elapsed[f] \in U64
    /\ \A f \in {"mean", "m2"} : IsF64(elapsed[f])

IntervalCounterType ==
    /\ \A f \in {"event_count", "time_event", "time_first", "time_last",
                  "time_least", "time_most"} : interval[f] \in U64
    /\ \A f \in {"mean", "m2"} : IsF64(interval[f])

CounterType == [variant : Variants, event_count : U64, time_start : 0 .. MaxTime]
RegistryType ==
    /\ entry # Moved =>
          DOMAIN entry[1] \subseteq Names /\ \A k \in DOMAIN entry[1] : entry[1][k] \in CounterType
    /\ registry # Unbound =>
          DOMAIN registry[1] \subseteq Names
              /\ \A k \in DOMAIN registry[1] : registry[1][k] \in CounterType

TypeOK == EventCounterType /\ ElapsedCounterType /\ IntervalCounterType /\ RegistryType

\* ------------------------------------------------------------- claims
\* C1: when every thread has made MaxCalls increment() calls on the
\* EventCounter and nothing stored into it, the count is NumThreads * MaxCalls.
C1_CountConservation ==
    (~stored /\ \A t \in Threads : calls[t] = MaxCalls /\ Idle(t))
        => event.event_count = NumThreads * MaxCalls

C1_Witness ==
    /\ ~stored
    /\ \A t \in Threads : calls[t] = MaxCalls /\ Idle(t)
    /\ event.event_count = NumThreads * MaxCalls

\* The aggregate after the observations s were folded in one at a time, each
\* by one pass of lines 103-113 (134-144).
RECURSIVE AggAfter(_)
AggAfter(s) ==
    IF s = <<>> THEN [n |-> 0, mean |-> F64Zero, m2 |-> F64Zero]
    ELSE LET p == AggAfter(SubSeq(s, 1, Len(s) - 1))
             dt == Micro(s[Len(s)])
         IN  [n |-> p.n + 1,
              mean |-> NextMean(p.mean, dt, p.n + 1),
              m2 |-> NextM2(p.m2, dt, p.mean)]

\* C2: whenever event_count is n, mean and m2 are the values after exactly n
\* observations were folded in.
C2_AggregateConsistency ==
    elapsed.event_count = Len(samples) =>
        /\ elapsed.mean = AggAfter(samples).mean
        /\ elapsed.m2 = AggAfter(samples).m2

\* C3: an end() that finds no begin() in flight (it read the sentinel 0 from
\* time_start) returns, and none of its steps changes a field of the counter.
C3_EndWithoutBeginIsNoOp ==
    /\ \A t \in Threads :
          (pc[t] = "end_get_time" /\ loc[t].time_start = 0) ~> Idle(t)
    /\ [][\A t \in Threads :
            (pc[t] = "end_get_time" /\ loc[t].time_start = 0 /\ pc'[t] # pc[t])
                => elapsed' = elapsed]_vars

\* C4: every call of a counter operation that a thread has started returns.
C4_Progress == \A t \in Threads : InCall(t) ~> Idle(t)

\* C9: whenever event_count > 0, time_least <= time_most <= time_total.
C9_MinMaxTotal ==
    elapsed.event_count > 0 =>
        /\ elapsed.time_least <= elapsed.time_most
        /\ elapsed.time_most <= elapsed.time_total
\* C5: one thread running begin(); wait; end() pairs on a fresh counter: the
\* m-th end(), which has read its begin()'s start time, returns, and then event_count is m, time_total is the sum of the
\* m samples and every sample lies between time_least and time_most.
C5_ElapsedBounds ==
    \A m \in 1 .. MaxBegins :
        (begins = m /\ pc[1] = "end_cas_start") ~>
            /\ Idle(1)
            /\ elapsed.event_count = m
            /\ Len(samples) = m
            /\ elapsed.time_total = SeqSum(samples)
            /\ \A i \in 1 .. Len(samples) :
                  elapsed.time_least <= samples[i] /\ samples[i] <= elapsed.time_most

\* C6: on a fresh counter, once begin(); clock + d; end() has folded its one
\* sample d > 0, event_count = 1 and time_total = time_least = time_most = d.
C6_FirstSampleSeeds ==
    \A d \in 1 .. MaxTime :
        (begins = 1 /\ samples = <<d>> /\ pc[1] = "end_load_start") =>
            /\ elapsed.event_count = 1
            /\ elapsed.time_total = d
            /\ elapsed.time_least = d
            /\ elapsed.time_most = d

\* C7: the first increment() on a fresh IntervalCounter returns, having
\* counted one event and left time_least and time_most at 0.
C7_IntervalSeeding ==
    \A t \in Threads :
        (pc[t] = "iv_load_count" /\ interval.event_count = 0) ~>
            /\ Idle(t)
            /\ interval.event_count > 0
            /\ interval.event_count = 1 =>
                  interval.time_least = 0 /\ interval.time_most = 0

\* C8: after begin(); cancel(), and through any later end() or
\* set_elapsed(0) with no new begin(), the aggregate fields are what they were
\* before the begin() and time_start is the sentinel 0.
C8_CancelExcludes ==
    span = "cancelled" =>
        /\ Aggregate(elapsed) = snap.before
        /\ elapsed.time_start = 0

C8_Witness ==
    /\ span = "cancelled"
    /\ snap.start > 0
    /\ pc[1] = "end_get_time"
    /\ loc[1].time_start = 0

\* C10: Registry::count(name) on the registry made by bind() of a builder
\* whose names only add_counter changed returns Ok exactly when
\* add_counter(name) was called on the builder, and otherwise the error that
\* carries the name asked for.
C10_RegistryLookup ==
    found # NoResult /\ origin = "bind" /\ ~bypassed =>
        IF asked \in added THEN found.tag = "ok"
        ELSE found = [tag |-> "err", counter |-> asked]

C10_Witness ==
    /\ found.tag = "err"
    /\ origin = "bind"
    /\ ~bypassed
    /\ added # {}
    /\ asked \notin added

\* C11: add_counter(name, variant) leaves the builder with exactly the names
\* it had plus name, stores under name a default-initialized counter of the
\* requested variant, also when name was already present, and leaves the
\* entries under every other name as they were.
C11_LastWriterWins ==
    [][\A name \in Names, variant \in Variants :
          Entry_add_counter(name, variant) =>
              /\ DOMAIN entry'[1] = DOMAIN entry[1] \cup {name}
              /\ entry'[1][name] = Default(variant)
              /\ \A k \in DOMAIN entry[1] \ {name} : entry'[1][k] = entry[1][k]]_vars

C11_Witness ==
    /\ entry # Moved
    /\ replaced # <<>>
    /\ replaced[1] \in DOMAIN entry[1]
    /\ entry[1][replaced[1]] = Default("ElapsedCounter")
    /\ \E k \in DOMAIN entry[1] \ {replaced[1]} : entry[1][k].event_count > 0

\* C12: once bind() has made the Registry, its names are those the builder
\* had at bind() and every name is bound to a counter of the variant it had
\* then, in every later state; only the counters' fields change.
C12_FrozenRegistry ==
    registry # Unbound /\ origin = "bind" =>
        /\ DOMAIN registry[1] = DOMAIN frozen
        /\ \A k \in DOMAIN frozen : registry[1][k].variant = frozen[k].variant

C12_Witness ==
    /\ registry # Unbound
    /\ origin = "bind"
    /\ Cardinality(DOMAIN frozen) >= 2
    /\ found.tag = "ok"
    /\ \E k \in DOMAIN frozen : registry[1][k].event_count # frozen[k].event_count
    /\ \E k \in DOMAIN frozen : frozen[k].variant # "EventCounter"

\* C13: after reset() of a counter, and after a second reset() right behind
\* it, every field of the counter is zero as in a new instance (no begin()
\* in flight: time_start is 0), and the second reset() found the fields
\* exactly as it left them.
C13_ResetIdempotence ==
    /\ wiped["event"] # <<>> => event = [event_count |-> 0]
    /\ wiped["elapsed"] # <<>> =>
          elapsed = [event_count |-> 0, time_start |-> 0, time_total |-> 0,
                     time_least |-> 0, time_most |-> 0, mean |-> F64Zero, m2 |-> F64Zero]
    /\ wiped["interval"] # <<>> =>
          interval = [event_count |-> 0, time_event |-> 0, time_first |-> 0, time_last |-> 0,
                      time_least |-> 0, time_most |-> 0, mean |-> F64Zero, m2 |-> F64Zero]
    /\ Len(wiped["event"]) = 2 => wiped["event"][2] = event
    /\ Len(wiped["elapsed"]) = 2 => wiped["elapsed"][2] = elapsed
    /\ Len(wiped["interval"]) = 2 => wiped["interval"][2] = interval

C13_Witness ==
    /\ Len(wiped["event"]) = 2 /\ wiped["event"][1].event_count = U64Max
    /\ Len(wiped["elapsed"]) = 2 /\ wiped["elapsed"][1].time_start > 0
    /\ Len(wiped["interval"]) = 2

\* C14: in every step that is neither reset() nor set_count(), the count of
\* the EventCounter does not decrease, also when increment() is called on a
\* count that set_count() put at the largest value.
C14_EventMonotone ==
    [][~(EventCounter_reset \/ \E t \in Threads, count \in U64 : EventCounter_set_count(t, count))
          => event'.event_count >= event.event_count]_vars

\* C15: set_elapsed(0) changes no field of the ElapsedCounter; a call
\* set_elapsed(v) with v > 0 adds 1 to event_count once and v to time_total
\* once, changes them in no other step, and never touches time_start, whether
\* or not a begin() is in flight.
C15_SetElapsedContract ==
    [][\A t \in Threads :
          /\ (Idle(t) /\ ElapsedCounter_set_elapsed(t, 0)) => elapsed' = elapsed
          /\ (pc[t] = "se_add_count" /\ pc'[t] # pc[t]) =>
                elapsed' = [elapsed EXCEPT !.event_count = @ + 1]
          /\ (pc[t] = "se_add_total" /\ pc'[t] # pc[t]) =>
                elapsed' = [elapsed EXCEPT !.time_total = @ + loc[t].arg]
          /\ (pc[t] \in {"se_load_least", "se_store_least", "se_load_most", "se_store_most",
                         "se_load_mean", "se_load_count", "se_cas_mean", "se_load_m2",
                         "se_cas_m2"} /\ loc'[t] # loc[t]) =>
                /\ elapsed'.event_count = elapsed.event_count
                /\ elapsed'.time_total = elapsed.time_total
                /\ elapsed'.time_start = elapsed.time_start]_vars

\* The largest and the smallest element of a non-empty sequence of numbers.
SeqMax(s) == CHOOSE x \in {s[i] : i \in 1 .. Len(s)} : \A i \in 1 .. Len(s) : s[i] <= x
SeqMin(s) == CHOOSE x \in {s[i] : i \in 1 .. Len(s)} : \A i \in 1 .. Len(s) : x <= s[i]

\* No thread is between recording an observation and the end of that
\* observation's update of time_least and time_most.
ExtremesSettled ==
    \A t \in Threads :
        pc[t] \notin {"end_add_total", "end_load_most", "end_cas_most",
                      "se_add_total", "se_load_least", "se_store_least",
                      "se_load_most", "se_store_most"}

\* C16: once the min/max steps of every observation folded into the
\* ElapsedCounter have run, time_most is the largest observation and
\* time_least the smallest, in every interleaving of the threads.
C16_ExtremeUpdate ==
    (samples # <<>> /\ ExtremesSettled) =>
        /\ elapsed.time_most = SeqMax(samples)
        /\ elapsed.time_least = SeqMin(samples)

\* Welford's recurrence over the observations s, in the units of mean and m2:
\* n' = n + 1, m' = m + (x - m) / n', s2' = s2 + (x - m) * (x - m').
RECURSIVE Welford(_)
Welford(s) ==
    IF s = <<>> THEN [n |-> 0, mean |-> F64Zero, m2 |-> F64Zero]
    ELSE LET p == Welford(SubSeq(s, 1, Len(s) - 1))
             x == Micro(s[Len(s)])
             m == F64Add(p.mean, F64DivBy(F64Sub(x, p.mean), p.n + 1))
         IN  [n |-> p.n + 1,
              mean |-> m,
              m2 |-> F64Add(p.m2, F64Mul(F64Sub(x, p.mean), F64Sub(x, m)))]

\* C17: one thread folding observations into the ElapsedCounter: when a fold
\* has written m2, its last field, event_count, mean and m2 are the values
\* Welford's recurrence gives for the observations folded so far.
C17_WelfordRecurrence ==
    [][(pc[1] \in {"se_cas_m2", "end_cas_m2"} /\ pc'[1] # pc[1]) =>
          /\ elapsed'.event_count = Welford(samples).n
          /\ elapsed'.mean = Welford(samples).mean
          /\ elapsed'.m2 = Welford(samples).m2]_vars

\* C18: no operation panics, and end() never goes on to fold an elapsed
\* value whose subtraction underflowed (the clock value it used is below
\* the start time it read), in every interleaving of begin, end and cancel
\* and also when reading the clock fails and leaves tv_sec at 0.
C18_NoWrappedElapsed ==
    \A t \in Threads :
        /\ pc[t] # "panicked"
        /\ pc[t] \in {"end_cas_start", "end_load_least", "end_cas_least", "end_add_count",
                      "end_add_total", "end_load_most", "end_cas_most"}
              => loc[t].ts >= loc[t].time_start

\* C19 as claimed: a begin() that finds a start time in flight leaves
\* time_start as it is.
C19_BeginKeepsStart ==
    [][\A t \in Threads :
          (pc[t] = "begin_store" /\ pc'[t] = "idle" /\ elapsed.time_start # 0)
              => elapsed'.time_start = elapsed.time_start]_vars

\* C19 as amended: with one thread, after begin() time_start is the
\* timestamp that begin() read, whether or not an earlier begin() was
\* outstanding, and the following end() measures from that latest begin().
C19_BeginOverwrites ==
    span = "begun" =>
        /\ Idle(1) => elapsed.time_start = snap.start
        /\ pc[1] \in {"end_cas_start", "end_load_least", "end_cas_least", "end_add_count",
                      "end_add_total", "end_load_most", "end_cas_most", "end_load_mean",
                      "end_load_count", "end_cas_mean", "end_load_m2", "end_cas_m2"} =>
              /\ loc[1].time_start = snap.start
              /\ loc[1].elapsed = loc[1].ts - snap.start

C19_Witness ==
    /\ span = "begun"
    /\ snap.prior > 0
    /\ snap.start > snap.prior
    /\ pc[1] = "end_add_total"
    /\ loc[1].elapsed = loc[1].ts - snap.start
    /\ samples = <<loc[1].elapsed>>

\* The threads whose end() has claimed a start time (line 79 succeeded) and
\* has not yet counted the observation (line 92).
Claimers == {t \in Threads : pc[t] \in {"end_load_least", "end_cas_least", "end_add_count"}}

\* C20: with one begin() and end() called from several threads, the begin()
\* is claimed by at most one end(): the observations counted plus the claims
\* under way never exceed the number of begin() calls; and when the start
\* time stored by the begin() has been cleared by the concurrent end() calls,
\* exactly one of them claimed it and event_count rises by exactly 1.
C20_OneObservationPerBegin ==
    /\ elapsed.event_count = Len(samples)
    /\ elapsed.event_count + Cardinality(Claimers) <= begins
    /\ (begins = 1 /\ snap.start > 0 /\ elapsed.time_start = 0) =>
          elapsed.event_count + Cardinality(Claimers) = 1

C20_Witness ==
    /\ begins = 1
    /\ elapsed.event_count = 1
    /\ pc[1] = "end_add_total"
    /\ pc[2] = "end_cas_start"
    /\ loc[2].time_start = snap.start
    /\ loc[1].time_start = snap.start
====
